---------------------------- MODULE Spec2Model ----------------------------
(***************************************************************************)
(* A model of the header-only string formatter src/format_util.h (class    *)
(* Formatter) and of the caller types of src/Formatter/Formatter.cpp.      *)
(*                                                                         *)
(* Text is a sequence of one-character strings; positions of the code      *)
(* (size_t, 0-based) are kept 0-based, so str.at(i) is str[i + 1].         *)
(***************************************************************************)
EXTENDS Integers, Sequences, FiniteSets, TLC

(***************************************************************************)
(* Bounds of the model.                                                    *)
(***************************************************************************)
\* longest template of a Format call
MaxLen == 5
\* most arguments of a Format call
MaxArgs == 2
\* longest std::vector rendered as an argument
MaxSeqLen == 2
\* largest precision a caller passes to Precision()
MaxPrec == 2
\* width of size_t in the model (the code's is the platform's)
SizeBits == 16

SizeMod == 2 ^ SizeBits
\* std::basic_string::npos, the largest size_t
npos == SizeMod - 1
\* unsigned subtraction, as the code's size_t expressions compute it
SubSz(a, b) == (a - b) % SizeMod

(***************************************************************************)
(* Text helpers.                                                           *)
(***************************************************************************)
RECURSIVE Spaces(_)
Spaces(n) == IF n <= 0 THEN << >> ELSE <<" ">> \o Spaces(n - 1)

\* what a call that ended in an exception gives instead of a text
Thrown == <<"std::out_of_range">>

\* std::basic_string::substr(p, n): the characters [p, min(p + n, size)),
\* std::out_of_range when p > size
substr(s, p, n) ==
    IF p > Len(s) THEN Thrown
    ELSE LET e == IF p + n > Len(s) THEN Len(s) ELSE p + n
         IN  SubSeq(s, p + 1, e)

\* std::basic_string::find(mask, from): the least position >= from at which
\* mask occurs, npos when there is none
find(s, mask, from) ==
    LET hits == { p \in from .. (Len(s) - Len(mask)) :
                    SubSeq(s, p + 1, p + Len(mask)) = mask }
    IN  IF hits = {} THEN npos
        ELSE CHOOSE p \in hits : \A q \in hits : p <= q

\* the format specifier
SUBSTITUTE_MASK == <<"%", "?">>

(***************************************************************************)
(* The working stream: std::basic_stringstream<char>.  buf is its text,    *)
(* flags/precision/loc/width its formatting state, bad its error state.    *)
(***************************************************************************)
FlagBits == {"skipws", "dec", "hex"}
Locales == {"C", "de_DE"}

\* a field narrower than width() is filled with spaces on the left (no
\* adjustfield bit of the model is `left`)
Pad(text, width) == Spaces(width - Len(text)) \o text

\* stream << text (a string, a C string or a char): nothing once the
\* stream has failed; otherwise the padded text, and width() is reset
Put(st, text) ==
    IF st.bad THEN st
    ELSE [st EXCEPT !.buf = @ \o Pad(text, st.width), !.width = 0]

DecDigit(d) == <<"0", "1", "2", "3", "4", "5", "6", "7", "8", "9",
                 "a", "b", "c", "d", "e", "f">>[d + 1]

RECURSIVE Digits(_, _)
Digits(n, base) ==
    IF n < base THEN <<DecDigit(n)>>
    ELSE Digits(n \div base, base) \o <<DecDigit(n % base)>>

\* num_put for an integer: hexadecimal when basefield is exactly hex,
\* decimal otherwise
IntText(n, flags) ==
    IF flags \cap {"dec", "hex"} = {"hex"} THEN Digits(n, 16) ELSE Digits(n, 10)

DecimalPoint(loc) == IF loc = "de_DE" THEN "," ELSE "."

RECURSIVE Pow10(_)
Pow10(k) == IF k <= 0 THEN 1 ELSE 10 * Pow10(k - 1)

\* n / d rounded to nearest, ties to even
RoundHalfEven(n, d) ==
    LET q == n \div d
        r == n % d
    IN  IF 2 * r > d \/ (2 * r = d /\ q % 2 = 1) THEN q + 1 ELSE q

RECURSIVE StripZeros(_)
StripZeros(ds) ==
    IF ds # << >> /\ ds[Len(ds)] = "0" THEN StripZeros(SubSeq(ds, 1, Len(ds) - 1))
    ELSE ds

RECURSIVE PadZeros(_, _)
PadZeros(ds, k) == IF Len(ds) >= k THEN ds ELSE PadZeros(<<"0">> \o ds, k)

\* num_put for a double e8 / 8 in [1, 10) in the default floatfield (%g):
\* P significant digits (a precision of 0 counts as 1), trailing zeros and
\* a bare decimal point removed, 1e+01 when one digit rounds up to ten
DoubleText(e8, precision, loc) ==
    LET P == IF precision = 0 THEN 1 ELSE precision
        d == IF P - 1 > 3 THEN 3 ELSE P - 1
        q == RoundHalfEven(125 * e8, Pow10(3 - d))
        ip == q \div Pow10(d)
        frac == StripZeros(PadZeros(Digits(q % Pow10(d), 10), d))
    IN  IF ip >= 10
        THEN IF P = 1 THEN <<"1", "e", "+", "0", "1">> ELSE <<"1", "0">>
        ELSE IF d = 0 \/ frac = << >> THEN Digits(ip, 10)
        ELSE Digits(ip, 10) \o <<DecimalPoint(loc)>> \o frac

(***************************************************************************)
(* Argument values.  Each kind stands for a C++ type a caller can pass:    *)
(*   bool, int, dbl (a double e8/8), str (std::string), pair, cpair (a     *)
(*   std::pair with a caller-defined operator<<), vec (std::vector),       *)
(*   svec (a vector type with a caller-defined operator<<), Y (struct Y,   *)
(*   has operator<<), X (struct X, has none), conv (a class with           *)
(*   operator bool and operator int: not streamable, converts to bool),    *)
(*   hex (std::hex), setw (std::setw(n)), nullbuf (a null pointer to a     *)
(*   std::streambuf) and wrap (Formatter::FWrapper<T>, what Output(t)      *)
(*   returns).                                                             *)
(***************************************************************************)
Bool(b) == [kind |-> "bool", b |-> b]
IntV(n) == [kind |-> "int", n |-> n]
Dbl(e8) == [kind |-> "dbl", e8 |-> e8]
Str(s) == [kind |-> "str", s |-> s]
Pair(a, b) == [kind |-> "pair", first |-> a, second |-> b]
CPair(a, b) == [kind |-> "cpair", first |-> a, second |-> b]
Vec(es) == [kind |-> "vec", es |-> es]
SVec(es) == [kind |-> "svec", es |-> es]
ValY == [kind |-> "Y"]
ValX == [kind |-> "X"]
Conv(b) == [kind |-> "conv", b |-> b]
Hex == [kind |-> "hex"]
SetW(n) == [kind |-> "setw", n |-> n]
NullBuf == [kind |-> "nullbuf"]
Wrap(v) == [kind |-> "wrap", t |-> v]

(***************************************************************************)
(* What the OutputValue overload set tests of an argument's type T:        *)
(*   isBool      T is bool                                                 *)
(*   isString    T is a std::basic_string                                  *)
(*   isPair      T is a std::pair                                          *)
(*   streamable  std::cout << T is well-formed                             *)
(*   iterable    T has const_iterator, value_type, begin() and end()       *)
(*   toBool      the implicit conversion of T to bool: "none", "std" (a    *)
(*               standard conversion) or "user" (a conversion function)    *)
(***************************************************************************)
TypeDesc(b, s, p, o, i, c) ==
    [isBool |-> b, isString |-> s, isPair |-> p, streamable |-> o,
     iterable |-> i, toBool |-> c]

TypeOf(v) ==
    CASE v.kind = "bool"  -> TypeDesc(TRUE, FALSE, FALSE, TRUE, FALSE, "none")
      [] v.kind \in {"int", "dbl"}
                          -> TypeDesc(FALSE, FALSE, FALSE, TRUE, FALSE, "std")
      [] v.kind = "str"   -> TypeDesc(FALSE, TRUE, FALSE, TRUE, TRUE, "none")
      [] v.kind = "pair"  -> TypeDesc(FALSE, FALSE, TRUE, FALSE, FALSE, "none")
      [] v.kind = "cpair" -> TypeDesc(FALSE, FALSE, TRUE, TRUE, FALSE, "none")
      [] v.kind = "vec"   -> TypeDesc(FALSE, FALSE, FALSE, FALSE, TRUE, "none")
      [] v.kind = "svec"  -> TypeDesc(FALSE, FALSE, FALSE, TRUE, TRUE, "none")
      [] v.kind = "X"     -> TypeDesc(FALSE, FALSE, FALSE, FALSE, FALSE, "none")
      [] v.kind = "conv"  -> TypeDesc(FALSE, FALSE, FALSE, FALSE, FALSE, "user")
      [] v.kind = "hex"   -> TypeDesc(FALSE, FALSE, FALSE, TRUE, FALSE, "std")
      [] v.kind = "nullbuf"
                          -> TypeDesc(FALSE, FALSE, FALSE, TRUE, FALSE, "std")
      [] OTHER            -> TypeDesc(FALSE, FALSE, FALSE, TRUE, FALSE, "none")

(***************************************************************************)
(* The OutputValue overload set and the overload the compiler selects.     *)
(* Each overload is named by the rule it implements.                       *)
(***************************************************************************)
Overloads == {"custom", "sequence", "text", "pair", "bool", "unknown"}

\* an overload is viable when template argument deduction succeeds (its
\* default template arguments are well-formed) and the argument converts
Viable(r, td) ==
    CASE r = "custom"   -> td.streamable
      [] r = "sequence" -> td.iterable
      [] r = "text"     -> td.isString /\ td.streamable
      [] r = "pair"     -> td.isPair
      [] r = "bool"     -> td.isBool \/ td.toBool # "none"
      [] r = "unknown"  -> TRUE

\* rank of the implicit conversion of the argument: 0 an exact match,
\* 1 a standard conversion, 2 a user-defined conversion, 3 the ellipsis
ConvRank(r, td) ==
    CASE r = "unknown" -> 3
      [] r = "bool"    -> IF td.isBool THEN 0 ELSE IF td.toBool = "std" THEN 1 ELSE 2
      [] OTHER         -> 0

\* a partial ordering that also puts the streamable overload before the
\* iterable one
MoreSpecializedCustomFirst(r, q) ==
    \/ r \in {"text", "pair", "bool"} /\ q \in {"custom", "sequence"}
    \/ r = "custom" /\ q = "sequence"

\* partial ordering of the function templates: a parameter of type bool,
\* const std::basic_string<T>& or const std::pair<T,V>& is more
\* specialized than const T&; the two const T& templates are unordered
MoreSpecialized(r, q) ==
    r \in {"text", "pair", "bool"} /\ q \in {"custom", "sequence"}

BetterOverload(r, q, td) ==
    \/ ConvRank(r, td) < ConvRank(q, td)
    \/ ConvRank(r, td) = ConvRank(q, td) /\ MoreSpecialized(r, q)

\* the overload selected for an argument of type td, "ambiguous" when no
\* viable overload is better than all others (the call does not compile)
Dispatch(td) ==
    LET viable == { r \in Overloads : Viable(r, td) }
        best == { r \in viable : \A q \in viable \ {r} : BetterOverload(r, q, td) }
    IN  IF best = {} THEN "ambiguous" ELSE CHOOSE r \in best : TRUE

\* a value of the model is well-formed as an argument when every
\* OutputValue call it leads to compiles, and a wrapped value is streamable
RECURSIVE Compiles(_)
Compiles(v) ==
    /\ Dispatch(TypeOf(v)) # "ambiguous"
    /\ CASE Dispatch(TypeOf(v)) = "pair" -> Compiles(v.first) /\ Compiles(v.second)
         [] Dispatch(TypeOf(v)) = "sequence" ->
                \A i \in 1 .. Len(v.es) : Compiles(v.es[i])
         [] v.kind = "wrap" -> TypeOf(v.t).streamable
         [] OTHER -> TRUE

(***************************************************************************)
(* stream << t for a streamable T: the inserter of T.                      *)
(***************************************************************************)
RECURSIVE Insert(_, _)
Insert(st, v) ==
    CASE v.kind = "int"  -> Put(st, IntText(v.n, st.flags))
      [] v.kind = "dbl"  -> Put(st, DoubleText(v.e8, st.precision, st.loc))
      [] v.kind = "bool" -> Put(st, IF v.b THEN <<"1">> ELSE <<"0">>)
      [] v.kind = "str"  -> Put(st, v.s)
      [] v.kind = "Y"    -> Put(st, <<"T", "y", "p", "e", " ", "Y">>)
      [] v.kind = "svec" -> Put(st, <<"S">>)
      [] v.kind = "cpair" -> Put(st, <<"P">>)
      [] v.kind = "hex"  -> [st EXCEPT !.flags = (@ \ {"dec", "hex"}) \cup {"hex"}]
      [] v.kind = "setw" -> [st EXCEPT !.width = v.n]
      [] v.kind = "nullbuf" -> [st EXCEPT !.bad = TRUE]
      [] v.kind = "wrap" -> Insert(st, v.t)

(***************************************************************************)
(* Formatter::OutputValue(stream, t): the selected overload's body.        *)
(***************************************************************************)
RECURSIVE OutputValue(_, _)
RECURSIVE OutputElements(_, _, _)

\* the loop of the sequence overload from element i on
OutputElements(st, es, i) ==
    IF i > Len(es) THEN st
    ELSE LET s1 == OutputValue(st, es[i])
             s2 == IF i # Len(es) THEN Put(s1, <<",", " ">>) ELSE s1
         IN  OutputElements(s2, es, i + 1)

OutputSequence(st, es) ==
    LET s0 == Put(st, <<"[">>)
    IN  IF es = << >> THEN Put(s0, <<"]">>)
        ELSE Put(OutputElements(s0, es, 1), <<"]">>)

OutputPair(st, v) ==
    LET s1 == OutputValue(Put(st, <<"{">>), v.first)
        s2 == OutputValue(Put(s1, <<" ", ":", " ">>), v.second)
    IN  Put(s2, <<"}">>)

OutputBool(st, b) ==
    Put(st, IF b THEN <<"t", "r", "u", "e">> ELSE <<"f", "a", "l", "s", "e">>)

OutputUnknown(st) == Put(st, <<"?">>)

OutputValue(st, v) ==
    LET r == Dispatch(TypeOf(v))
    IN  CASE r = "bool"     -> OutputBool(st, v.b)
          [] r = "text"     -> Put(st, v.s)
          [] r = "pair"     -> OutputPair(st, v)
          [] r = "custom"   -> Insert(st, v)
          [] r = "sequence" -> OutputSequence(st, v.es)
          [] r = "unknown"  -> OutputUnknown(st)

(***************************************************************************)
(* The program's state.                                                    *)
(*   m_flags, m_precision, m_locale  the Formatter's members               *)
(*   call    the activation of Format(str, args...): its locals and where  *)
(*           it stands (pc), [pc |-> "idle"] when no call is running       *)
(*   result  the string the last Format call returned, as a sequence of    *)
(*           one string (empty before the first call returns)              *)
(*   op      the last public operation called, with its input              *)
(*   ret     what the last operation returned, when it was a setter or a   *)
(*           getter                                                        *)
(*   before  the settings as they were before the last operation           *)
(*   saved   the settings before the last setter call, and what it         *)
(*           returned (what a caller keeps for a later restore)            *)
(***************************************************************************)
VARIABLES m_flags, m_precision, m_locale, call, result, op, ret, before, saved

vars == <<m_flags, m_precision, m_locale, call, result, op, ret, before, saved>>

Settings == [flags |-> m_flags, precision |-> m_precision, loc |-> m_locale]

\* Formatter(): the global locale, skipws | dec, a precision of 6
DefaultSettings == [flags |-> {"skipws", "dec"}, precision |-> 6, loc |-> "C"]

Idle == [pc |-> "idle"]

\* Formatter(loc, flags, precision), and what has not happened yet
Constructed(s) ==
    /\ m_flags = s.flags
    /\ m_precision = s.precision
    /\ m_locale = s.loc
    /\ call = Idle
    /\ result = << >>
    /\ op = [name |-> "Formatter"]
    /\ ret = [kind |-> "none"]
    /\ before = s
    /\ saved = [kind |-> "none"]

(***************************************************************************)
(* Format(const std::basic_string<T>& str, Args... args).                  *)
(***************************************************************************)
\* a fresh stringstream given the Formatter's precision, locale and flags
AssignStreamSettings(s) ==
    [buf |-> << >>, flags |-> s.flags, precision |-> s.precision,
     loc |-> s.loc, width |-> 0, bad |-> FALSE]

\* the locals of Format once the stream is set up; a call without
\* arguments to render goes straight to the scan
Enter(s, str, args) ==
    [pc |-> IF args = << >> THEN "scan" ELSE "render",
     str |-> str, args |-> args, stream |-> AssignStreamSettings(s),
     parameter_values |-> << >>, pos |-> 0, last_pos |-> 0,
     arg_counter |-> 0, iter |-> 0]

\* GetOutputParameters for the next argument: output it, keep the stream's
\* text as its parameter value, empty the text (stream.str(""))
GetOutputParameters(fr) ==
    LET i == Len(fr.parameter_values) + 1
        st == OutputValue(fr.stream, fr.args[i])
    IN  [fr EXCEPT !.parameter_values = Append(@, st.buf),
                   !.stream = [st EXCEPT !.buf = << >>],
                   !.pc = IF i = Len(fr.args) THEN "scan" ELSE "render"]

\* what str.find(SUBSTITUTE_MASK, last_pos) gives at the loop's head
NextMatch(fr) == find(fr.str, SUBSTITUTE_MASK, fr.last_pos)

\* the loop's test of a screened '%%?'
Screened(fr) ==
    LET pos == NextMatch(fr) IN pos > 0 /\ fr.str[pos] = "%"

mask_len == Len(SUBSTITUTE_MASK)

\* stream << piece << text, or the exception substr raised
Emit(fr, piece, text) ==
    IF piece = Thrown THEN [fr EXCEPT !.pc = "throw"]
    ELSE [fr EXCEPT !.stream = Put(Put(@, piece), text)]

\* the loop body for a screened match
ScanScreened(fr) ==
    LET pos == NextMatch(fr)
        piece == substr(fr.str, fr.last_pos, SubSz(SubSz(pos, fr.last_pos), 1))
        f1 == Emit(fr, piece, SUBSTITUTE_MASK)
    IN  [f1 EXCEPT !.pos = (pos + mask_len) % SizeMod,
                   !.last_pos = (pos + mask_len) % SizeMod,
                   !.iter = @ + 1]

\* a loop body that substitutes and leaves last_pos at the match
ScanSubstituteNoAdvance(fr) ==
    LET pos == NextMatch(fr)
        piece == substr(fr.str, fr.last_pos, SubSz(pos, fr.last_pos))
        has == fr.arg_counter < Len(fr.args)
        text == IF has THEN fr.parameter_values[fr.arg_counter + 1] ELSE <<"?">>
        f1 == Emit(fr, piece, text)
    IN  [f1 EXCEPT !.pos = pos, !.last_pos = pos,
                   !.arg_counter = IF has THEN @ + 1 ELSE @,
                   !.iter = @ + 1]

\* the loop body for a match that takes a parameter
ScanSubstitute(fr) ==
    LET pos == NextMatch(fr)
        piece == substr(fr.str, fr.last_pos, SubSz(pos, fr.last_pos))
        has == fr.arg_counter < Len(fr.args)
        text == IF has THEN fr.parameter_values[fr.arg_counter + 1] ELSE <<"?">>
        f1 == Emit(fr, piece, text)
    IN  [f1 EXCEPT !.pos = (pos + mask_len) % SizeMod,
                   !.last_pos = (pos + mask_len) % SizeMod,
                   !.arg_counter = IF has THEN @ + 1 ELSE @,
                   !.iter = @ + 1]

\* after the loop: the rest of str, and the stream's text is returned
ScanTail(fr) ==
    LET piece == substr(fr.str, fr.last_pos, SubSz(Len(fr.str), fr.last_pos))
        f1 == Emit(fr, piece, << >>)
    IN  IF f1.pc = "throw" THEN f1
        ELSE [f1 EXCEPT !.pos = npos, !.pc = "done"]

\* one step of a running call
FormatStep(fr) ==
    IF fr.pc = "render" THEN GetOutputParameters(fr)
    ELSE IF NextMatch(fr) = npos THEN ScanTail(fr)
    ELSE IF Screened(fr) THEN ScanScreened(fr)
    ELSE ScanSubstitute(fr)

RECURSIVE RunFormat(_)
RunFormat(fr) ==
    IF fr.pc \in {"done", "throw"} THEN fr ELSE RunFormat(FormatStep(fr))

\* what Format(str, args...) returns under settings s
Format(s, str, args) ==
    LET fr == RunFormat(Enter(s, str, args))
    IN  IF fr.pc = "throw" THEN Thrown ELSE fr.stream.buf

\* a call without arguments that scans str as the general overload does
FormatNoArgsScanning(str) == Format(DefaultSettings, str, << >>)

\* Format(const std::basic_string<T>& str), the call without arguments
FormatNoArgs(str) == str

(***************************************************************************)
(* Inputs.                                                                 *)
(***************************************************************************)
Alphabet == {"%", "?", "a"}

SeqsUpTo(S, n) == UNION { [1 .. k -> S] : k \in 0 .. n }

Templates == SeqsUpTo(Alphabet, MaxLen)

\* arguments of the scanned calls: an int, std::hex, std::setw(3) and a
\* null std::streambuf pointer
ScanValues == {IntV(255), Hex, SetW(3), NullBuf}

ArgLists == SeqsUpTo(ScanValues, MaxArgs) \ {<< >>}

(***************************************************************************)
(* Spec: one Format call on a default-constructed Formatter, the call      *)
(* with arguments taken step by step.                                      *)
(***************************************************************************)
Init == Constructed(DefaultSettings)

\* the caller enters Format(str, args...)
FormatEnter ==
    /\ call = Idle /\ result = << >>
    /\ \E str \in Templates, args \in ArgLists :
          /\ \A i \in 1 .. Len(args) : Compiles(args[i])
          /\ call' = Enter(Settings, str, args)
          /\ op' = [name |-> "Format", str |-> str, args |-> args]
    /\ before' = Settings
    /\ UNCHANGED <<m_flags, m_precision, m_locale, result, ret, saved>>

RenderArgument ==
    /\ call.pc = "render"
    /\ call' = GetOutputParameters(call)
    /\ UNCHANGED <<m_flags, m_precision, m_locale, result, op, ret, before, saved>>

LoopScreened ==
    /\ call.pc = "scan" /\ NextMatch(call) # npos /\ Screened(call)
    /\ call' = ScanScreened(call)
    /\ UNCHANGED <<m_flags, m_precision, m_locale, result, op, ret, before, saved>>

LoopSubstitute ==
    /\ call.pc = "scan" /\ NextMatch(call) # npos /\ ~Screened(call)
    /\ call' = ScanSubstitute(call)
    /\ UNCHANGED <<m_flags, m_precision, m_locale, result, op, ret, before, saved>>

LoopExit ==
    /\ call.pc = "scan" /\ NextMatch(call) = npos
    /\ call' = ScanTail(call)
    /\ result' = <<IF call'.pc = "throw" THEN Thrown ELSE call'.stream.buf>>
    /\ UNCHANGED <<m_flags, m_precision, m_locale, op, ret, before, saved>>

\* the caller calls Format(str) without arguments
FormatNoArgsCall ==
    /\ call = Idle /\ result = << >>
    /\ \E str \in Templates :
          /\ result' = <<FormatNoArgs(str)>>
          /\ op' = [name |-> "Format", str |-> str, args |-> << >>]
    /\ before' = Settings
    /\ UNCHANGED <<m_flags, m_precision, m_locale, call, ret, saved>>

Next ==
    \/ FormatEnter
    \/ RenderArgument
    \/ LoopScreened
    \/ LoopSubstitute
    \/ LoopExit
    \/ FormatNoArgsCall

Spec == Init /\ [][Next]_vars

(***************************************************************************)
(* What the specification says a call gives, stated position by position   *)
(* and without the scan: a placeholder is an occurrence of %? that no %     *)
(* precedes; the i-th placeholder stands for the i-th text, or for ? when  *)
(* there is none; the % before a screened %? is dropped; every other       *)
(* character stands for itself.                                            *)
(***************************************************************************)
IsToken(t, p) == p >= 0 /\ p + 2 <= Len(t) /\ t[p + 1] = "%" /\ t[p + 2] = "?"

Tokens(t) == { p \in 0 .. Len(t) : IsToken(t, p) }

Escapes(t) == { p \in Tokens(t) : p > 0 /\ t[p] = "%" }

Placeholders(t) == Tokens(t) \ Escapes(t)

PlaceholderIndex(t, p) == Cardinality({ q \in Placeholders(t) : q < p })

Piece(t, p, texts) ==
    IF p \in Placeholders(t)
    THEN IF PlaceholderIndex(t, p) < Len(texts)
         THEN texts[PlaceholderIndex(t, p) + 1] ELSE <<"?">>
    ELSE IF (p - 1) \in Placeholders(t) \/ (p + 1) \in Escapes(t) THEN << >>
    ELSE <<t[p + 1]>>

RECURSIVE ExpandFrom(_, _, _)
ExpandFrom(t, p, texts) ==
    IF p >= Len(t) THEN << >>
    ELSE Piece(t, p, texts) \o ExpandFrom(t, p + 1, texts)

Expand(t, texts) == ExpandFrom(t, 0, texts)

\* the rendered text of one value under settings s, as the specification
\* defines it: a function of the value and the settings alone
Rendered(v, s) == OutputValue(AssignStreamSettings(s), v).buf

RenderedAll(args, s) == [i \in 1 .. Len(args) |-> Rendered(args[i], s)]

\* a Format call has returned
Returned == op.name = "Format" /\ result # << >>

\* a Format call with arguments has returned
ReturnedGeneral == Returned /\ op.args # << >>

(***************************************************************************)
(* C1: a call with exactly N >= 1 placeholders and exactly N arguments     *)
(* returns the template with the i-th placeholder replaced by the rendered *)
(* text of argument i and all literal text kept.                           *)
(***************************************************************************)
C1_ExactArity ==
    (ReturnedGeneral /\ Cardinality(Placeholders(op.str)) = Len(op.args))
        => result[1] = Expand(op.str, RenderedAll(op.args, before))

(***************************************************************************)
(* C2: a call with N >= 0 arguments and more than N placeholders returns   *)
(* normally, the first N placeholders replaced by the rendered arguments   *)
(* and every further one by the single character ?.                        *)
(***************************************************************************)
C2_Underflow ==
    (Returned /\ Cardinality(Placeholders(op.str)) > Len(op.args))
        => /\ result[1] # Thrown
           /\ result[1] = Expand(op.str, RenderedAll(op.args, before))

(***************************************************************************)
(* C3: arguments beyond the K placeholders never influence the result: a   *)
(* call with N > K arguments returns what substitution of the first K      *)
(* gives, and a template without any %? comes back as it is.               *)
(***************************************************************************)
C3_Overflow ==
    LET K == Cardinality(Placeholders(op.str))
    IN  (ReturnedGeneral /\ Len(op.args) > K)
            => /\ result[1] = Expand(op.str, RenderedAll(SubSeq(op.args, 1, K), before))
               /\ Tokens(op.str) = {} => result[1] = op.str

(***************************************************************************)
(* C4: in a call with at least one argument every screened %%? comes out   *)
(* as the two characters %?, takes no argument and does not shift the      *)
(* binding of the placeholders after it.                                   *)
(***************************************************************************)
C4_Escape ==
    LET K == Cardinality(Placeholders(op.str))
    IN  (ReturnedGeneral /\ Escapes(op.str) # {})
            => /\ result[1] = Expand(op.str, RenderedAll(op.args, before))
               /\ call.arg_counter = IF K < Len(op.args) THEN K ELSE Len(op.args)

C9_RenderingIsPure ==
    (call.pc = "render" \/ (call.pc = "scan" /\ call.iter = 0))
        => /\ call.stream = AssignStreamSettings(before)
           /\ \A i \in 1 .. Len(call.parameter_values) :
                 call.parameter_values[i] = Rendered(call.args[i], before)

(***************************************************************************)
(* C10: in the scan loop 0 <= last_pos <= size; at each match              *)
(* last_pos <= pos and pos + 2 <= size; when the match is screened         *)
(* pos >= last_pos + 1, so pos - last_pos - 1 does not wrap; last_pos      *)
(* grows by at least 2 per iteration and never passes size, so no substr   *)
(* throws and the loop ends; arg_counter never exceeds the argument count. *)
(***************************************************************************)
C10_ScanBounds ==
    /\ call.pc # "throw"
    /\ call.pc \in {"scan", "done"} =>
          /\ 0 <= call.last_pos /\ call.last_pos <= Len(call.str)
          /\ 2 * call.iter <= call.last_pos
          /\ call.arg_counter <= Len(call.args)
          /\ call.arg_counter <= call.iter
    /\ (call.pc = "scan" /\ NextMatch(call) # npos) =>
          /\ call.last_pos <= NextMatch(call)
          /\ NextMatch(call) + mask_len <= Len(call.str)
          /\ SubSz(NextMatch(call), call.last_pos) = NextMatch(call) - call.last_pos
          /\ Screened(call) =>
                /\ NextMatch(call) >= call.last_pos + 1
                /\ SubSz(SubSz(NextMatch(call), call.last_pos), 1)
                      = NextMatch(call) - call.last_pos - 1
                /\ ScanScreened(call).last_pos >= call.last_pos + 2
          /\ ~Screened(call) => ScanSubstitute(call).last_pos >= call.last_pos + 2

\* the loop stands at a screened match right after an earlier match: the
\* literal segment before the dropped % is empty
C10_Witness ==
    /\ call.pc = "scan" /\ call.iter > 0
    /\ NextMatch(call) # npos /\ Screened(call)
    /\ NextMatch(call) = call.last_pos + 1

(***************************************************************************)
(* SpecSettings: the setters, the getters and whole Format calls on one    *)
(* Formatter, in any order.                                                *)
(***************************************************************************)
\* the two Format overloads: the one without a parameter pack is chosen
\* for a call without arguments
FormatAny(s, str, args) ==
    IF args = << >> THEN FormatNoArgs(str) ELSE Format(s, str, args)

\* flag sets and masks a caller passes
FlagInputs == {{"hex"}, {"dec"}, {"dec", "hex"}}
MaskInputs == {{"dec", "hex"}, {"hex"}}
PrecisionInputs == 1 .. MaxPrec

\* the calls of this specification: an int (255) and the doubles 1.125
\* and 2.5 in a template of two placeholders
SettingsTemplates == {<<"%", "?", "a", "%", "?">>}
SettingsArgLists == {<<IntV(255), Dbl(9)>>, <<Dbl(20)>>, <<Hex, IntV(255)>>}

Save(kind, old) == [kind |-> kind, value |-> old, settings |-> Settings]

\* std::ios_base::fmtflags Flags() const
FlagsGet ==
    /\ call = Idle
    /\ ret' = [kind |-> "flags", value |-> m_flags]
    /\ op' = [name |-> "Flags()"]
    /\ before' = Settings
    /\ UNCHANGED <<m_flags, m_precision, m_locale, call, result, saved>>

\* Flags(flags): replaces the flags, returns the old ones
FlagsSet ==
    /\ call = Idle
    /\ \E flags \in FlagInputs \cup
                    (IF saved.kind = "flags" THEN {saved.value} ELSE {}) :
          /\ m_flags' = flags
          /\ op' = [name |-> "Flags", arg |-> flags]
    /\ ret' = [kind |-> "flags", value |-> m_flags]
    /\ saved' = Save("flags", m_flags)
    /\ before' = Settings
    /\ UNCHANGED <<m_precision, m_locale, call, result>>

\* SetF(flags): m_flags |= flags, returns the old flags
SetF ==
    /\ call = Idle
    /\ \E flags \in FlagInputs :
          /\ m_flags' = m_flags \cup flags
          /\ op' = [name |-> "SetF", arg |-> flags]
    /\ ret' = [kind |-> "flags", value |-> m_flags]
    /\ saved' = Save("flags", m_flags)
    /\ before' = Settings
    /\ UNCHANGED <<m_precision, m_locale, call, result>>

\* SetF(flags, mask): clears the flags under mask, sets flags & mask,
\* returns the old flags
SetFMask ==
    /\ call = Idle
    /\ \E flags \in FlagInputs, mask \in MaskInputs :
          /\ m_flags' = (m_flags \ mask) \cup (flags \cap mask)
          /\ op' = [name |-> "SetFMask", arg |-> flags, mask |-> mask]
    /\ ret' = [kind |-> "flags", value |-> m_flags]
    /\ saved' = Save("flags", m_flags)
    /\ before' = Settings
    /\ UNCHANGED <<m_precision, m_locale, call, result>>

\* UnSetF(flags): m_flags &= ~flags, returns nothing
UnSetF ==
    /\ call = Idle
    /\ \E flags \in FlagInputs :
          /\ m_flags' = m_flags \ flags
          /\ op' = [name |-> "UnSetF", arg |-> flags]
    /\ ret' = [kind |-> "none"]
    /\ saved' = [kind |-> "none"]
    /\ before' = Settings
    /\ UNCHANGED <<m_precision, m_locale, call, result>>

\* Imbue(loc): replaces the locale, returns the old one
Imbue ==
    /\ call = Idle
    /\ \E loc \in Locales :
          /\ m_locale' = loc
          /\ op' = [name |-> "Imbue", arg |-> loc]
    /\ ret' = [kind |-> "locale", value |-> m_locale]
    /\ saved' = Save("locale", m_locale)
    /\ before' = Settings
    /\ UNCHANGED <<m_flags, m_precision, call, result>>

\* std::locale Getloc() const
Getloc ==
    /\ call = Idle
    /\ ret' = [kind |-> "locale", value |-> m_locale]
    /\ op' = [name |-> "Getloc"]
    /\ before' = Settings
    /\ UNCHANGED <<m_flags, m_precision, m_locale, call, result, saved>>

\* std::streamsize Precision() const
PrecisionGet ==
    /\ call = Idle
    /\ ret' = [kind |-> "precision", value |-> m_precision]
    /\ op' = [name |-> "Precision()"]
    /\ before' = Settings
    /\ UNCHANGED <<m_flags, m_precision, m_locale, call, result, saved>>

\* Precision(prec): replaces the precision, returns the old one
PrecisionSet ==
    /\ call = Idle
    /\ \E prec \in PrecisionInputs \cup
                   (IF saved.kind = "precision" THEN {saved.value} ELSE {}) :
          /\ m_precision' = prec
          /\ op' = [name |-> "Precision", arg |-> prec]
    /\ ret' = [kind |-> "precision", value |-> m_precision]
    /\ saved' = Save("precision", m_precision)
    /\ before' = Settings
    /\ UNCHANGED <<m_flags, m_locale, call, result>>

\* a whole Format call, with or without arguments
FormatCall ==
    /\ call = Idle
    /\ \E str \in SettingsTemplates, args \in SettingsArgLists \cup {<< >>} :
          /\ result' = <<FormatAny(Settings, str, args)>>
          /\ op' = [name |-> "Format", str |-> str, args |-> args]
    /\ ret' = [kind |-> "string"]
    /\ before' = Settings
    /\ UNCHANGED <<m_flags, m_precision, m_locale, call, saved>>

NextSettings ==
    \/ FlagsGet
    \/ FlagsSet
    \/ SetF
    \/ SetFMask
    \/ UnSetF
    \/ Imbue
    \/ Getloc
    \/ PrecisionGet
    \/ PrecisionSet
    \/ FormatCall

SpecSettings == Init /\ [][NextSettings]_vars

(***************************************************************************)
(* C8: each setter returns the value its setting had before the call; a    *)
(* Format call renders with the settings in force when it is called and    *)
(* leaves them unchanged; a string already returned is not altered by a    *)
(* later setter; and passing a setter's returned value back to Flags,      *)
(* Precision or Imbue restores the settings, so that a Format call gives   *)
(* what it gave before the change.                                         *)
(***************************************************************************)
\* the text of an int, a double or a manipulator under settings s, from
\* the formatting rules alone: a manipulator has no text
SettingText(v, s) ==
    CASE v.kind = "int" -> IntText(v.n, s.flags)
      [] v.kind = "dbl" -> DoubleText(v.e8, s.precision, s.loc)
      [] OTHER          -> << >>

SettingTexts(args, s) == [i \in 1 .. Len(args) |-> SettingText(args[i], s)]

C8_SetterReturnsOld ==
    /\ op.name \in {"Flags", "SetF", "SetFMask"} =>
          ret.kind = "flags" /\ ret.value = before.flags
    /\ op.name = "Precision" =>
          ret.kind = "precision" /\ ret.value = before.precision
    /\ op.name = "Imbue" => ret.kind = "locale" /\ ret.value = before.loc

C8_FormatUsesSettings ==
    op.name = "Format" =>
        /\ Settings = before
        /\ op.args # << >> =>
              result[1] = Expand(op.str, SettingTexts(op.args, before))

C8_SetterKeepsStrings ==
    op'.name \in {"Flags", "SetF", "SetFMask", "UnSetF", "Precision", "Imbue"}
        => result' = result

\* the step passes the value the last setter returned back to the
\* replacing setter of the same setting
C8_Restoring ==
    /\ saved.kind # "none"
    /\ \/ op'.name = "Flags" /\ saved.kind = "flags"
       \/ op'.name = "Precision" /\ saved.kind = "precision"
       \/ op'.name = "Imbue" /\ saved.kind = "locale"
    /\ op'.arg = saved.value

C8_RestoreStep ==
    C8_Restoring =>
        /\ Settings' = saved.settings
        /\ \A str \in SettingsTemplates, args \in SettingsArgLists :
              FormatAny(Settings', str, args) = FormatAny(saved.settings, str, args)

C8_Settings ==
    /\ [](C8_SetterReturnsOld /\ C8_FormatUsesSettings)
    /\ [][C8_SetterKeepsStrings /\ C8_RestoreStep]_vars

(***************************************************************************)
(* SpecRender: one value is given to OutputValue on a Formatter built by   *)
(* either constructor.                                                     *)
(***************************************************************************)
\* what Formatter(loc, flags, precision) is given
CtorSettings ==
    [flags : {{"skipws", "dec"}, {"skipws", "hex"}}, precision : {6, MaxPrec},
     loc : Locales]

\* the types an argument can have, by what the overload set tests of them
TypeDescs ==
    { td \in [isBool : BOOLEAN, isString : BOOLEAN, isPair : BOOLEAN,
              streamable : BOOLEAN, iterable : BOOLEAN,
              toBool : {"none", "std", "user"}] :
        /\ td.isBool => /\ ~td.isString /\ ~td.isPair /\ td.streamable
                        /\ ~td.iterable /\ td.toBool = "none"
        /\ td.isString => ~td.isPair /\ td.iterable /\ td.toBool = "none"
        /\ td.isPair => ~td.iterable /\ td.toBool = "none"
        /\ td.toBool = "std" => td.streamable /\ ~td.iterable }

Bools == {Bool(TRUE), Bool(FALSE)}
Ints == {IntV(10), IntV(255)}
\* 2.0 and 4.5
Dbls == {Dbl(16), Dbl(36)}
Strs == {Str(<<"a", "b">>), Str(<<"[">>)}
MapEntries == {Pair(d, b) : d \in Dbls, b \in Bools}
IntVecs == {Vec(es) : es \in SeqsUpTo(Ints, MaxSeqLen)}

\* vectors: all elements of one type
ElementSets ==
    {Bools, Ints, Dbls, Strs, {ValX}, {ValY}, MapEntries, IntVecs,
     {SetW(3)}, {Pair(IntV(255), Hex)}}
Vecs == {Vec(es) : es \in UNION {SeqsUpTo(S, MaxSeqLen) : S \in ElementSets}}

RenderValues ==
    Bools \cup Ints \cup Dbls \cup Strs \cup Vecs
    \cup {ValX, ValY, Conv(TRUE), Conv(FALSE), Hex, SetW(3), NullBuf}
    \cup {Pair(a, b) : a \in Dbls \cup Strs, b \in Bools \cup Ints \cup {ValX}}
    \cup {CPair(IntV(10), Bool(TRUE)), Wrap(CPair(IntV(10), Bool(TRUE)))}
    \cup {SVec(<<IntV(10)>>), Wrap(SVec(<<IntV(10)>>)), Wrap(IntV(255)),
          Vec(<<SVec(<<IntV(10)>>)>>)}

\* what a call that does not compile gives instead of a text
IllFormed == <<"ill-formed">>

InitRender == \E s \in CtorSettings \cup {DefaultSettings} : Constructed(s)

\* the compiler resolves OutputValue(stream, t) for an argument type
ResolveOverload ==
    /\ op.name = "Formatter"
    /\ \E td \in TypeDescs :
          op' = [name |-> "OutputValue", type |-> td, rule |-> Dispatch(td)]
    /\ before' = Settings
    /\ UNCHANGED <<m_flags, m_precision, m_locale, call, result, ret, saved>>

\* GetOutputParameters renders one argument on the stream Format set up
RenderValue ==
    /\ op.name = "Formatter"
    /\ \E v \in RenderValues :
          /\ op' = [name |-> "Render", val |-> v, type |-> TypeOf(v),
                    rule |-> Dispatch(TypeOf(v))]
          /\ result' = << IF Compiles(v)
                          THEN GetOutputParameters(
                                   Enter(Settings, SUBSTITUTE_MASK, <<v>>)
                               ).parameter_values[1]
                          ELSE IllFormed >>
    /\ before' = Settings
    /\ UNCHANGED <<m_flags, m_precision, m_locale, call, ret, saved>>

NextRender ==
    \/ ResolveOverload
    \/ RenderValue

SpecRender == InitRender /\ [][NextRender]_vars

(***************************************************************************)
(* The rule the specification's priority order gives a type: boolean,      *)
(* text, pair, custom-convertible, sequence, unknown, the first that       *)
(* matches.                                                                *)
(***************************************************************************)
PriorityRule(td) ==
    IF td.isBool THEN "bool"
    ELSE IF td.isString /\ td.streamable THEN "text"
    ELSE IF td.isPair THEN "pair"
    ELSE IF td.streamable THEN "custom"
    ELSE IF td.iterable THEN "sequence"
    ELSE "unknown"

\* the same order with the two cases the overload set decides otherwise:
\* a type both streamable and iterable that is neither text nor a pair
\* selects nothing (the call is ambiguous), and a type with none of the
\* capabilities that converts to bool is rendered as a boolean
SelectedRule(td) ==
    IF td.isBool THEN "bool"
    ELSE IF td.isString /\ td.streamable THEN "text"
    ELSE IF td.isPair THEN "pair"
    ELSE IF td.streamable /\ td.iterable THEN "ambiguous"
    ELSE IF td.streamable THEN "custom"
    ELSE IF td.iterable THEN "sequence"
    ELSE IF td.toBool # "none" THEN "bool"
    ELSE "unknown"

BoolText(b) == IF b THEN <<"t", "r", "u", "e">> ELSE <<"f", "a", "l", "s", "e">>

\* what the rules say of the text of single values
RuleTexts(v, text) ==
    /\ v.kind \in {"bool", "conv"} => text = BoolText(v.b)
    /\ v.kind = "str" => text = v.s
    /\ v.kind = "X" => text = <<"?">>
    /\ v.kind = "Y" => text = <<"T", "y", "p", "e", " ", "Y">>

RECURSIVE RuleText(_, _)
RECURSIVE JoinFrom(_, _, _)

\* the texts of es from the i-th on, ", " before each but the first
JoinFrom(es, i, s) ==
    IF i > Len(es) THEN << >>
    ELSE (IF i > 1 THEN <<",", " ">> ELSE << >>)
            \o RuleText(es[i], s) \o JoinFrom(es, i + 1, s)

\* the text of a value by the rendering rules of the specification
RuleText(v, s) ==
    CASE v.kind = "bool" -> BoolText(v.b)
      [] v.kind = "str"  -> v.s
      [] v.kind = "pair" ->
            <<"{">> \o RuleText(v.first, s) \o <<" ", ":", " ">>
                    \o RuleText(v.second, s) \o <<"}">>
      [] v.kind \in {"int", "dbl", "hex", "setw"} -> SettingText(v, s)
      [] v.kind = "Y"    -> <<"T", "y", "p", "e", " ", "Y">>
      [] v.kind = "vec"  -> <<"[">> \o JoinFrom(v.es, 1, s) \o <<"]">>
      [] OTHER           -> <<"?">>

C7_Sequences ==
    (op.name = "Render" /\ op.val.kind = "vec" /\ result[1] # IllFormed)
        => result[1] = RuleText(op.val, before)

=============================================================================
